---- MODULE Spec2Model ----
(***************************************************************************)
(* Model of the batch ETL pipeline of src/etl/insurance_etl.py:            *)
(* InsuranceETLPipeline.run_pipeline and the functions it calls, driven by *)
(* main.  A DataFrame is a lazy plan: it holds no rows, and every Spark    *)
(* action (count, collect, save) evaluates the plan again against the raw  *)
(* topic and the users table, with the timestamp of that query.            *)
(***************************************************************************)
EXTENDS Integers, Sequences, FiniteSets, TLC

(* ------------------------------ bounds --------------------------------- *)
\* largest number of payloads in the raw topic
MaxEvents == 2
\* user ids 1..MaxUsers may have a row in the users table
MaxUsers == 2

(* ------------------------- nullable values ----------------------------- *)
\* SQL NULL / Python None is the empty tuple, a present value v is <<v>>
Null == <<>>
Some(v) == <<v>>
IsNull(x) == Len(x) = 0
Val(x) == x[1]

(* --------------------- dates and timestamps ---------------------------- *)
\* days since 1970-01-01 of a proleptic Gregorian civil date
DaysFromCivil(y, m, d) ==
    LET yy  == IF m <= 2 THEN y - 1 ELSE y
        era == yy \div 400
        yoe == yy - era * 400
        mp  == IF m > 2 THEN m - 3 ELSE m + 9
        doy == (153 * mp + 2) \div 5 + d - 1
        doe == yoe * 365 + yoe \div 4 - yoe \div 100 + doy
    IN  era * 146097 + doe - 719468

IsLeap(y) == (y % 4 = 0 /\ y % 100 # 0) \/ y % 400 = 0

DaysInMonth(y, m) ==
    IF m = 2 THEN (IF IsLeap(y) THEN 29 ELSE 28)
    ELSE IF m \in {4, 6, 9, 11} THEN 30 ELSE 31

\* to_timestamp(col, "yyyy-MM-dd HH:mm:ss"): a time string is the tuple of
\* its six numeric components <<yyyy, MM, dd, HH, mm, ss>>; a string that is
\* not a time of that format parses to NULL
to_timestamp(s) ==
    IF IsNull(s) THEN Null
    ELSE LET t == Val(s) IN
         IF /\ t[2] \in 1..12
            /\ t[3] \in 1..DaysInMonth(t[1], t[2])
            /\ t[4] \in 0..23
            /\ t[5] \in 0..59
            /\ t[6] \in 0..59
         THEN Some([days |-> DaysFromCivil(t[1], t[2], t[3]),
                    secs |-> t[4] * 3600 + t[5] * 60 + t[6]])
         ELSE Null

\* to_date of a timestamp: the date component, as days since the epoch
to_date(ts) == IF IsNull(ts) THEN Null ELSE Some(Val(ts).days)

\* hour of a timestamp, 0..23
hour(ts) == IF IsNull(ts) THEN Null ELSE Some(Val(ts).secs \div 3600)

\* dayofweek of a timestamp: 1 = Sunday .. 7 = Saturday (1970-01-01 was a
\* Thursday)
dayofweek(ts) == IF IsNull(ts) THEN Null ELSE Some(((Val(ts).days + 4) % 7) + 1)

\* the operands of the difference the wrong way round
datediff_Swapped(end, start) ==
    IF IsNull(end) \/ IsNull(start) THEN Null ELSE Some(Val(start) - Val(end))

\* datediff(end, start): NULL when either side is NULL
datediff(end, start) ==
    IF IsNull(end) \/ IsNull(start) THEN Null ELSE Some(Val(end) - Val(start))

(* ----------------------------- inputs ---------------------------------- *)
T1 == Some(<<2024, 1, 10, 14, 30, 0>>)
T2 == Some(<<2023, 12, 31, 23, 59, 59>>)
TBad == Some(<<2024, 13, 40, 25, 0, 0>>)

\* a JSON object of the raw topic, one field per key of event_schema; a key
\* that is missing or null is Null
Envelope(t, u, s, ty, ch, p) ==
    [event_time |-> t, user_id |-> u, session_id |-> s,
     event_type |-> ty, channel |-> ch, premium_amount |-> p]

NullEnvelope == Envelope(Null, Null, Null, Null, Null, Null)

\* the payloads a raw topic may hold: wellformed = FALSE is a value that is
\* not a JSON object of the schema
Payloads ==
    { [wellformed |-> TRUE,
       json |-> Envelope(T1, Some(1), Some("s1"), Some("purchase"), Some("web"), Some(500))],
      [wellformed |-> TRUE,
       json |-> Envelope(T2, Some(2), Some("s2"), Some("Purchase"), Some("app"), Some(300))],
      [wellformed |-> TRUE,
       json |-> Envelope(T1, Some(1), Some("s3"), Null, Some("web"), Some(700))],
      [wellformed |-> TRUE,
       json |-> Envelope(T1, Some(2), Some("s4"), Some("view"), Some("web"), Some(0))],
      [wellformed |-> TRUE,
       json |-> Envelope(T2, Null, Some("s5"), Some("purchase"), Some("web"), Some(100))],
      [wellformed |-> TRUE,
       json |-> Envelope(TBad, Some(1), Some("s6"), Some("view"), Some("app"), Some(200))],
      [wellformed |-> TRUE,
       json |-> Envelope(T2, Some(1), Null, Some("view"), Some("app"), Null)],
      [wellformed |-> FALSE, json |-> NullEnvelope] }

NumPartitions == 2

\* the producer keys every message by user_id; the partition follows the key
PartitionOf(p) ==
    IF p.wellformed /\ ~IsNull(p.json.user_id)
    THEN Val(p.json.user_id) % NumPartitions
    ELSE 0

SignupDates == {DaysFromCivil(2024, 1, 1), DaysFromCivil(2024, 2, 1)}

Cities == <<"NY", "LA", "SF", "TX">>
Devices == <<"mobile", "desktop", "tablet", "tv">>

\* a row of table users (the audit columns created_at/updated_at are read
\* but never used)
UserRow(u, d) ==
    [user_id |-> Some(u), signup_date |-> Some(d),
     city |-> Some(Cities[((u - 1) % 4) + 1]),
     device_type |-> Some(Devices[((u - 1) % 4) + 1])]

\* the snapshots of table users: user_id is its primary key
UserTables ==
    { tbl \in SUBSET { UserRow(u, d) : u \in 1..MaxUsers, d \in SignupDates } :
        \A a, b \in tbl : a.user_id = b.user_id => a = b }

RECURSIVE SeqsUpTo(_, _)
SeqsUpTo(S, n) ==
    IF n = 0 THEN { <<>> }
    ELSE LET shorter == SeqsUpTo(S, n - 1)
         IN  shorter \cup { Append(q, x) : q \in { r \in shorter : Len(r) = n - 1 }, x \in S }

RECURSIVE SetToSeq(_)
SetToSeq(S) ==
    IF S = {} THEN <<>>
    ELSE LET x == CHOOSE y \in S : TRUE IN <<x>> \o SetToSeq(S \ {x})

RECURSIVE Flatten(_)
Flatten(ss) == IF ss = <<>> THEN <<>> ELSE Head(ss) \o Flatten(Tail(ss))

Range(q) == { q[i] : i \in DOMAIN q }

(* ------------------------ extract_kafka_events -------------------------- *)
\* from_json(value, event_schema), PERMISSIVE: a value that does not parse
\* gives a struct whose fields are all NULL; "data.*" keeps it as one row
from_json(p) == IF p.wellformed THEN p.json ELSE NullEnvelope

\* a parser that drops the values that do not parse
EventsDf_DropMalformed(messages) ==
    LET good == SelectSeq(messages, LAMBDA m : m.wellformed)
    IN  [i \in DOMAIN good |->
            [part |-> PartitionOf(good[i]),
             row  |-> [from_json(good[i]) EXCEPT !.event_time = to_timestamp(@)]]]

\* events_df: one row per message of the topic, in its Spark partition;
\* event_time is replaced by the parsed timestamp
EventsDf(messages) ==
    [i \in DOMAIN messages |->
        [part |-> PartitionOf(messages[i]),
         row  |-> [from_json(messages[i]) EXCEPT !.event_time = to_timestamp(@)]]]

(* ------------------------ extract_mysql_users --------------------------- *)
\* users_df: the rows of table users, signup_date passed through to_date
\* (a DATE column is already a date)
UsersDf(tbl) == tbl

(* ------------------------ transform_enrich_data ------------------------- *)
\* the filter with >= 0 for > 0
IsClean_ZeroPremium(r) ==
    /\ ~IsNull(r.user_id)
    /\ ~IsNull(r.event_time)
    /\ ~IsNull(r.session_id)
    /\ ~IsNull(r.premium_amount)
    /\ Val(r.premium_amount) >= 0

\* the filter that builds events_clean
IsClean(r) ==
    /\ ~IsNull(r.user_id)
    /\ ~IsNull(r.event_time)
    /\ ~IsNull(r.session_id)
    /\ ~IsNull(r.premium_amount)
    /\ Val(r.premium_amount) > 0

EventsClean(ev) == SelectSeq(ev, LAMBDA e : IsClean(e.row))

NoUser == [signup_date |-> Null, city |-> Null, device_type |-> Null]

\* the join with how="inner": an event without a users row is lost
JoinOne_Inner(e, usr) ==
    LET matches == { u \in usr : ~IsNull(e.row.user_id) /\ u.user_id = e.row.user_id }
    IN  [k \in 1..Cardinality(matches) |->
            [part |-> e.part, row |-> e.row,
             dim |-> [signup_date |-> SetToSeq(matches)[k].signup_date,
                      city |-> SetToSeq(matches)[k].city,
                      device_type |-> SetToSeq(matches)[k].device_type]]]

\* events_clean.join(broadcast(users_df), on="user_id", how="left") for one
\* event: one row per users row of the same user_id, or one row with the
\* users columns NULL when there is none
JoinOne(e, usr) ==
    LET matches == { u \in usr : ~IsNull(e.row.user_id) /\ u.user_id = e.row.user_id }
    IN  IF matches = {}
        THEN << [part |-> e.part, row |-> e.row, dim |-> NoUser] >>
        ELSE [k \in 1..Cardinality(matches) |->
                [part |-> e.part, row |-> e.row,
                 dim |-> [signup_date |-> SetToSeq(matches)[k].signup_date,
                          city |-> SetToSeq(matches)[k].city,
                          device_type |-> SetToSeq(matches)[k].device_type]]]

EnrichedDf(ev, usr) ==
    Flatten([i \in DOMAIN EventsClean(ev) |-> JoinOne(EventsClean(ev)[i], usr)])

\* the comparison made without regard to case
IsPurchase_AnyCase(ty) ==
    IF ~IsNull(ty) /\ Val(ty) \in {"purchase", "Purchase", "PURCHASE"}
    THEN Some(1) ELSE Some(0)

\* when(col("event_type") == "purchase", 1).otherwise(0): a NULL comparison
\* is not true
IsPurchase(ty) == IF ~IsNull(ty) /\ Val(ty) = "purchase" THEN Some(1) ELSE Some(0)

\* a row number that restarts in every partition, without the partition bits
MonotonicallyIncreasingId_RowOnly(joined, k) ==
    [hi |-> 0,
     lo |-> Cardinality({ j \in 1..(k - 1) : joined[j].part = joined[k].part })]

\* monotonically_increasing_id(): the partition in the upper 31 bits and the
\* number of the row within its partition in the lower 33 bits, kept as the
\* pair of the two bit fields
MonotonicallyIncreasingId(joined, k) ==
    [hi |-> joined[k].part,
     lo |-> Cardinality({ j \in 1..(k - 1) : joined[j].part = joined[k].part })]

FinalColumns ==
    << "event_id", "event_time", "user_id", "session_id", "event_type",
       "channel", "premium_amount", "signup_date", "city", "device_type",
       "user_tenure_days", "event_date", "event_hour", "event_day_of_week",
       "is_purchase", "processing_time", "data_source" >>

\* transformed_df / final_df for the k-th joined row, in a query that runs
\* at time now
FinalRow(joined, k, now) ==
    LET e == joined[k].row
        d == joined[k].dim
    IN  [event_id          |-> Some(MonotonicallyIncreasingId(joined, k)),
         event_time        |-> e.event_time,
         user_id           |-> e.user_id,
         session_id        |-> e.session_id,
         event_type        |-> e.event_type,
         channel           |-> e.channel,
         premium_amount    |-> e.premium_amount,
         signup_date       |-> d.signup_date,
         city              |-> d.city,
         device_type       |-> d.device_type,
         user_tenure_days  |-> datediff(to_date(e.event_time), d.signup_date),
         event_date        |-> to_date(e.event_time),
         event_hour        |-> hour(e.event_time),
         event_day_of_week |-> dayofweek(e.event_time),
         is_purchase       |-> IsPurchase(e.event_type),
         processing_time   |-> Some(now),
         data_source       |-> Some("spark_etl")]

\* the rows an action on final_df sees: the plan is evaluated from the
\* topic and the table each time, current_timestamp() being the time of
\* that query
FinalDf(messages, tbl, now) ==
    LET joined == EnrichedDf(EventsDf(messages), UsersDf(tbl))
    IN  { FinalRow(joined, k, now) : k \in DOMAIN joined }

\* sum(when(col(c).isNull(), 1).otherwise(0)) collected: SUM over no row at
\* all is NULL (None), not 0
NullCount(rows, c) ==
    IF rows = {} THEN Null
    ELSE Some(Cardinality({ r \in rows : IsNull(r[c]) }))

(* ------------------------------- state ---------------------------------- *)
VARIABLES
    topic,          \* the messages of the raw topic
    users,          \* the rows of table users
    pc,             \* the statement main / run_pipeline is at
    clock,          \* wall clock, read by current_timestamp() once per query
    spark,          \* the session: "none", "active", "stopped"
    stopCalls,      \* calls of self.spark.stop()
    extracted,      \* the count logged by extract_kafka_events
    userCount,      \* the count logged by extract_mysql_users
    transformed,    \* the count logged by transform_enrich_data
    colIdx,         \* the column the quality loop is at
    null_counts,    \* the dict of the quality report
    auditSeen,      \* the rows the latest query of the quality report read
    warnings,       \* the columns logged with a warning
    cacheCalls,     \* calls of processed_df.cache()
    unpersistCalls, \* calls of processed_df.unpersist()
    storage,        \* the cache of processed_df: "none", "marked",
                    \* "materialized", "released", "dropped"
    published,      \* the rows appended to the output topic by this run
    exc,            \* the pending exception: the statement that raised it
    retval,         \* what run_pipeline returned
    exitCode        \* the argument of sys.exit

vars == << topic, users, pc, clock, spark, stopCalls, extracted, userCount,
           transformed, colIdx, null_counts, auditSeen, warnings, cacheCalls,
           unpersistCalls, storage, published, exc, retval, exitCode >>

inputs == << topic, users >>
counts == << extracted, userCount, transformed >>
audit == << colIdx, null_counts, auditSeen, warnings >>
cache == << cacheCalls, unpersistCalls, storage >>
outcome == << exc, retval, exitCode >>

NumColumns == Len(FinalColumns)

Init ==
    /\ topic \in SeqsUpTo(Payloads, MaxEvents)
    /\ users \in UserTables
    /\ pc = "main"
    /\ clock = 1
    /\ spark = "none"
    /\ stopCalls = 0
    /\ extracted = Null
    /\ userCount = Null
    /\ transformed = Null
    /\ colIdx = 1
    /\ null_counts = <<>>
    /\ auditSeen = {}
    /\ warnings = {}
    /\ cacheCalls = 0
    /\ unpersistCalls = 0
    /\ storage = "none"
    /\ published = {}
    /\ exc = Null
    /\ retval = Null
    /\ exitCode = Null

\* an exception raised by the statement at pc inside the try of run_pipeline
Raise ==
    /\ exc' = Some(pc)
    /\ pc' = "except"
    /\ UNCHANGED << retval, exitCode >>

(* -------------------------------- main ---------------------------------- *)
\* pipeline = InsuranceETLPipeline(): the session is created
Construct ==
    /\ pc = "main"
    /\ spark' = "active"
    /\ pc' = "extract_kafka"
    /\ UNCHANGED << inputs, clock, stopCalls, counts, audit, cache, published, outcome >>

\* _create_spark_session raises: no pipeline, main exits with 1
ConstructFails ==
    /\ pc = "main"
    /\ exc' = Some(pc)
    /\ pc' = "raised"
    /\ UNCHANGED << inputs, clock, spark, stopCalls, counts, audit, cache, published,
                    retval, exitCode >>

(* ----------------------------- run_pipeline ----------------------------- *)
\* events_df = self.extract_kafka_events(kafka_topic): the count it logs
ExtractKafka ==
    /\ pc = "extract_kafka"
    /\ extracted' = Some(Len(EventsDf(topic)))
    /\ pc' = "extract_mysql"
    /\ UNCHANGED << inputs, clock, spark, stopCalls, userCount, transformed, audit,
                    cache, published, outcome >>

ExtractKafkaFails ==
    /\ pc = "extract_kafka"
    /\ Raise
    /\ UNCHANGED << inputs, clock, spark, stopCalls, counts, audit, cache, published >>

\* users_df = self.extract_mysql_users()
ExtractMysql ==
    /\ pc = "extract_mysql"
    /\ userCount' = Some(Cardinality(UsersDf(users)))
    /\ pc' = "transform"
    /\ UNCHANGED << inputs, clock, spark, stopCalls, extracted, transformed, audit,
                    cache, published, outcome >>

ExtractMysqlFails ==
    /\ pc = "extract_mysql"
    /\ Raise
    /\ UNCHANGED << inputs, clock, spark, stopCalls, counts, audit, cache, published >>

\* transform_enrich_data up to count = final_df.count()
TransformCount ==
    /\ pc = "transform"
    /\ transformed' = Some(Cardinality(FinalDf(topic, users, clock)))
    /\ clock' = clock + 1
    /\ pc' = "audit"
    /\ UNCHANGED << inputs, spark, stopCalls, extracted, userCount, audit, cache,
                    published, outcome >>

TransformCountFails ==
    /\ pc = "transform"
    /\ Raise
    /\ UNCHANGED << inputs, clock, spark, stopCalls, counts, audit, cache, published >>

\* one iteration of "for column_name in final_df.columns": a query of its
\* own over final_df
AuditColumn ==
    /\ pc = "audit"
    /\ colIdx <= NumColumns
    /\ LET rows == FinalDf(topic, users, clock)
           c == FinalColumns[colIdx]
       IN  /\ auditSeen' = rows
           /\ null_counts' = (c :> NullCount(rows, c)) @@ null_counts
    /\ clock' = clock + 1
    /\ colIdx' = colIdx + 1
    /\ pc' = IF colIdx = NumColumns THEN "audit_report" ELSE "audit"
    /\ UNCHANGED << inputs, spark, stopCalls, counts, warnings, cache, published, outcome >>

AuditColumnFails ==
    /\ pc = "audit"
    /\ Raise
    /\ UNCHANGED << inputs, clock, spark, stopCalls, counts, audit, cache, published >>

\* the columns before the first one whose count is None
BeforeNone ==
    { FinalColumns[i] : i \in { j \in 1..NumColumns :
        \A k \in 1..j : ~IsNull(null_counts[FinalColumns[k]]) } }

\* "if null_count > 0: logger.warning(...)" for every item, then return
AuditReport ==
    /\ pc = "audit_report"
    /\ \A c \in DOMAIN null_counts : ~IsNull(null_counts[c])
    /\ warnings' = { c \in DOMAIN null_counts : Val(null_counts[c]) > 0 }
    /\ pc' = "cache"
    /\ UNCHANGED << inputs, clock, spark, stopCalls, counts, colIdx, null_counts,
                    auditSeen, cache, published, outcome >>

\* None > 0 is a TypeError
AuditReportTypeError ==
    /\ pc = "audit_report"
    /\ \E c \in DOMAIN null_counts : IsNull(null_counts[c])
    /\ warnings' = { c \in BeforeNone : Val(null_counts[c]) > 0 }
    /\ Raise
    /\ UNCHANGED << inputs, clock, spark, stopCalls, counts, colIdx, null_counts,
                    auditSeen, cache, published >>

\* processed_df.cache(): marks the plan, computes nothing
Cache ==
    /\ pc = "cache"
    /\ cacheCalls' = cacheCalls + 1
    /\ storage' = "marked"
    /\ pc' = "load"
    /\ UNCHANGED << inputs, clock, spark, stopCalls, counts, audit, unpersistCalls,
                    published, outcome >>

\* self.load_to_kafka(processed_df): the save evaluates the plan, which
\* fills the cache, and appends every row to the output topic
LoadToKafka ==
    /\ pc = "load"
    /\ published' = published \cup FinalDf(topic, users, clock)
    /\ storage' = "materialized"
    /\ clock' = clock + 1
    /\ pc' = "unpersist"
    /\ UNCHANGED << inputs, spark, stopCalls, counts, audit, cacheCalls, unpersistCalls,
                    outcome >>

\* the save raises: any part of the rows may have been appended already
LoadToKafkaFails ==
    /\ pc = "load"
    /\ \E part \in SUBSET FinalDf(topic, users, clock) :
          published' = published \cup part
    /\ clock' = clock + 1
    /\ Raise
    /\ UNCHANGED << inputs, spark, stopCalls, counts, audit, cache >>

\* processed_df.unpersist()
Unpersist ==
    /\ pc = "unpersist"
    /\ unpersistCalls' = unpersistCalls + 1
    /\ storage' = "released"
    /\ pc' = "return"
    /\ UNCHANGED << inputs, clock, spark, stopCalls, counts, audit, cacheCalls,
                    published, outcome >>

\* return True: the value is held while the finally clause runs
ReturnTrue ==
    /\ pc = "return"
    /\ retval' = Some(TRUE)
    /\ pc' = "finally"
    /\ UNCHANGED << inputs, clock, spark, stopCalls, counts, audit, cache, published,
                    exc, exitCode >>

\* the handler without its raise: the exception is logged and dropped
Except_NoReraise ==
    /\ pc = "except"
    /\ exc' = Null
    /\ pc' = "finally"
    /\ UNCHANGED << inputs, clock, spark, stopCalls, counts, audit, cache, published,
                    retval, exitCode >>

\* except Exception as e: logger.error(...); raise
Except ==
    /\ pc = "except"
    /\ pc' = "finally"
    /\ UNCHANGED << inputs, clock, spark, stopCalls, counts, audit, cache, published,
                    outcome >>

\* the stop at the end of the try body instead of a finally clause
Finally_OnlyOnSuccess ==
    /\ pc = "finally"
    /\ stopCalls' = IF IsNull(exc) THEN stopCalls + 1 ELSE stopCalls
    /\ spark' = IF IsNull(exc) THEN "stopped" ELSE spark
    /\ storage' = IF IsNull(exc) /\ storage \in {"marked", "materialized"}
                  THEN "dropped" ELSE storage
    /\ pc' = IF IsNull(exc) THEN "returned" ELSE "raised"
    /\ UNCHANGED << inputs, clock, counts, audit, cacheCalls, unpersistCalls,
                    published, outcome >>

\* finally: self.spark.stop(); then the return or the raise completes
Finally ==
    /\ pc = "finally"
    /\ stopCalls' = stopCalls + 1
    /\ spark' = "stopped"
    /\ storage' = IF storage \in {"marked", "materialized"} THEN "dropped" ELSE storage
    /\ pc' = IF IsNull(exc) THEN "returned" ELSE "raised"
    /\ UNCHANGED << inputs, clock, counts, audit, cacheCalls, unpersistCalls,
                    published, outcome >>

(* -------------------------------- main ---------------------------------- *)
\* run_pipeline returned: sys.exit(0)
MainExit0 ==
    /\ pc = "returned"
    /\ exitCode' = Some(0)
    /\ pc' = "exit"
    /\ UNCHANGED << inputs, clock, spark, stopCalls, counts, audit, cache, published,
                    exc, retval >>

\* except Exception as e: sys.exit(1)
MainExit1 ==
    /\ pc = "raised"
    /\ exitCode' = Some(1)
    /\ pc' = "exit"
    /\ UNCHANGED << inputs, clock, spark, stopCalls, counts, audit, cache, published,
                    exc, retval >>

Next ==
    \/ Construct
    \/ ConstructFails
    \/ ExtractKafka
    \/ ExtractKafkaFails
    \/ ExtractMysql
    \/ ExtractMysqlFails
    \/ TransformCount
    \/ TransformCountFails
    \/ AuditColumn
    \/ AuditColumnFails
    \/ AuditReport
    \/ AuditReportTypeError
    \/ Cache
    \/ LoadToKafka
    \/ LoadToKafkaFails
    \/ Unpersist
    \/ ReturnTrue
    \/ Except
    \/ Finally
    \/ MainExit0
    \/ MainExit1

Spec == Init /\ [][Next]_vars

TypeOK ==
    /\ pc \in {"main", "extract_kafka", "extract_mysql", "transform", "audit",
               "audit_report", "cache", "load", "unpersist", "return", "except",
               "finally", "returned", "raised", "exit"}
    /\ spark \in {"none", "active", "stopped"}
    /\ storage \in {"none", "marked", "materialized", "released", "dropped"}
    /\ colIdx \in 1..(NumColumns + 1)

(* ------------------------- the run, its phases -------------------------- *)
\* control is back in main
Exited == pc \in {"returned", "raised", "exit"}

\* the publish completed and nothing was raised
Loaded == pc \in {"unpersist", "return", "finally", "returned", "exit"} /\ IsNull(exc)

\* the phase of the orchestrator's state machine the run is in
Phase ==
    IF pc = "main" THEN (IF IsNull(exc) THEN "INIT" ELSE "FAILED")
    ELSE IF ~IsNull(exc) THEN "FAILED"
    ELSE IF pc \in {"extract_kafka", "extract_mysql"} THEN "EXTRACT"
    ELSE IF pc = "transform" THEN "TRANSFORM"
    ELSE IF pc \in {"audit", "audit_report", "cache", "load", "unpersist"} THEN "AUDIT_LOAD"
    ELSE "DONE"

PhaseOrder ==
    { <<"INIT", "EXTRACT">>, <<"EXTRACT", "TRANSFORM">>,
      <<"TRANSFORM", "AUDIT_LOAD">>, <<"AUDIT_LOAD", "DONE">>,
      <<"INIT", "FAILED">>, <<"EXTRACT", "FAILED">>, <<"TRANSFORM", "FAILED">>,
      <<"AUDIT_LOAD", "FAILED">> }

(* C1: whenever the sink has published, every published record is one the  *)
(* quality audit read: same rows, same event_id, same processing_time.     *)
C1_AuditAndSinkShareRows == published \subseteq auditSeen

(* C2: run_pipeline returns True and main exits with 0 only if the        *)
(* extraction, the transformation and the whole publish completed without *)
(* an exception; once anything raised, True is never returned and main    *)
(* exits with 1.                                                          *)
C2_SuccessOnlyIfAllCompleted ==
    /\ (retval = Some(TRUE) \/ exitCode = Some(0)) =>
          /\ IsNull(exc)
          /\ ~IsNull(extracted) /\ ~IsNull(userCount) /\ ~IsNull(transformed)
          /\ DOMAIN null_counts = Range(FinalColumns)
          /\ published = FinalDf(topic, users, clock - 1)
    /\ ~IsNull(exc) =>
          /\ retval = Null
          /\ pc \in {"except", "finally", "raised", "exit"}
          /\ pc = "exit" => exitCode = Some(1)
    /\ pc = "exit" => exitCode \in {Some(0), Some(1)}

C2_Witness == pc = "exit" /\ exc = Some("load") /\ exitCode = Some(1)

(* C3: the phase only moves EXTRACT, TRANSFORM, AUDIT+LOAD, DONE, or from *)
(* a phase before DONE to FAILED, which is terminal like DONE; a run that *)
(* failed before the load has published nothing.                          *)
C3_PhaseOrder ==
    [][ /\ Phase' # Phase => <<Phase, Phase'>> \in PhaseOrder
        /\ (Phase' = "FAILED" /\ exc' # Some("load")) => published' = {} ]_vars

C3_Witness == pc = "raised" /\ exc = Some("transform") /\ published = {}

(* C4: once run_pipeline has exited after the cache call, cache was       *)
(* called exactly once and unpersist exactly once, whether or not the     *)
(* load failed.                                                           *)
C4_PinnedOnceReleasedOnce ==
    (Exited /\ cacheCalls > 0) => (cacheCalls = 1 /\ unpersistCalls = 1)

(* C5: the session opened at construction has been stopped exactly once  *)
(* when run_pipeline is left, by return or by exception, and not before.  *)
C5_SessionStoppedOnce ==
    /\ stopCalls = IF Exited /\ spark # "none" THEN 1 ELSE 0
    /\ (Exited /\ spark # "none") => spark = "stopped"

C5_Witness == pc = "raised" /\ exc = Some("load") /\ stopCalls = 1

(* ----------------------- the records and the events --------------------- *)
\* the batch extract_kafka_events returns for the topic
ExtractedRows == EventsDf(topic)

\* the event columns of an enriched record
RawOf(r) ==
    [event_time |-> r.event_time, user_id |-> r.user_id, session_id |-> r.session_id,
     event_type |-> r.event_type, channel |-> r.channel,
     premium_amount |-> r.premium_amount]

\* an event that is not valid: a required field is null or the premium is
\* not positive
Invalid(e) ==
    \/ IsNull(e.user_id)
    \/ IsNull(e.event_time)
    \/ IsNull(e.session_id)
    \/ IsNull(e.premium_amount)
    \/ Val(e.premium_amount) <= 0

ValidIdx == { i \in DOMAIN ExtractedRows : ~Invalid(ExtractedRows[i].row) }

\* every record a query of final_df gave to the audit or to the sink
Observed == published \cup auditSeen

(* C6: no enriched record, audited or published, carries the fields of an *)
(* event with a null user_id, event_time, session_id or premium_amount or *)
(* with premium_amount <= 0, and the published count is the input count   *)
(* less the number of such events.                                        *)
C6_InvalidEventsDropped ==
    /\ \A r \in Observed : \A i \in DOMAIN ExtractedRows :
          Invalid(ExtractedRows[i].row) => RawOf(r) # ExtractedRows[i].row
    /\ Loaded => Cardinality(published) =
                    Len(topic) - Cardinality(DOMAIN ExtractedRows \ ValidIdx)

C6_Witness ==
    /\ Loaded
    /\ published # {}
    /\ \E i \in DOMAIN ExtractedRows :
          /\ ~IsNull(ExtractedRows[i].row.premium_amount)
          /\ Val(ExtractedRows[i].row.premium_amount) = 0

(* C7: with unique user_id keys in the users table, the published set has *)
(* exactly one record per valid event; the record carries the signup_date, *)
(* city and device_type of the users row of its user_id, or nulls when    *)
(* the table has no such row.                                             *)
C7_LeftJoinOnePerEvent ==
    Loaded =>
        /\ Cardinality(published) = Cardinality(ValidIdx)
        /\ \A i \in ValidIdx :
              Cardinality({ r \in published : RawOf(r) = ExtractedRows[i].row }) =
              Cardinality({ j \in ValidIdx : ExtractedRows[j].row = ExtractedRows[i].row })
        /\ \A r \in published :
              LET m == { u \in users : u.user_id = r.user_id }
              IN  IF m = {}
                  THEN IsNull(r.signup_date) /\ IsNull(r.city) /\ IsNull(r.device_type)
                  ELSE \E u \in m : /\ r.signup_date = u.signup_date
                                    /\ r.city = u.city
                                    /\ r.device_type = u.device_type

C7_Witness ==
    /\ Loaded
    /\ \E r, q \in published : IsNull(r.city) /\ ~IsNull(q.city)

(* C8, as claimed: the batch extract_kafka_events returns and counts has  *)
(* no record for a payload that fails to parse.                           *)
C8_MalformedDroppedAtExtract ==
    ~IsNull(extracted) =>
        Val(extracted) = Cardinality({ i \in DOMAIN topic : topic[i].wellformed })

AllNull(e) ==
    /\ IsNull(e.event_time) /\ IsNull(e.user_id) /\ IsNull(e.session_id)
    /\ IsNull(e.event_type) /\ IsNull(e.channel) /\ IsNull(e.premium_amount)

(* C8, amended: extract_kafka_events keeps one record per payload and     *)
(* counts it; a payload that fails to parse is a record with every field  *)
(* null, and no audited or published record comes from such a payload:    *)
(* the cleaning filter of transform_enrich_data removes it.               *)
C8_MalformedDroppedByCleaner ==
    /\ Len(ExtractedRows) = Len(topic)
    /\ ~IsNull(extracted) => Val(extracted) = Len(topic)
    /\ \A i \in DOMAIN ExtractedRows \cap DOMAIN topic :
          ~topic[i].wellformed => AllNull(ExtractedRows[i].row)
    /\ \A r \in Observed : ~AllNull(RawOf(r))
    /\ Loaded => Cardinality(published) <=
                    Cardinality({ i \in DOMAIN topic : topic[i].wellformed })

C8_Witness ==
    /\ Loaded
    /\ published # {}
    /\ extracted = Some(Len(topic))
    /\ \E i \in DOMAIN topic : ~topic[i].wellformed

C10_NullCountsExact ==
    /\ \A c \in DOMAIN null_counts :
          null_counts[c] =
          Some(Cardinality({ r \in FinalDf(topic, users, clock) : IsNull(r[c]) }))
    /\ exc # Some("audit_report")

(* C11: no two records the sink published in the run share an event_id:   *)
(* the published records have as many different event_ids as there are    *)
(* valid events.                                                          *)
C11_EventIdUnique ==
    /\ \A r, q \in published : r.event_id = q.event_id => r = q
    /\ \A r \in published : ~IsNull(r.event_id)
    /\ Loaded => Cardinality({ r.event_id : r \in published }) = Cardinality(ValidIdx)

C11_Witness ==
    /\ Loaded
    /\ \E r, q \in published :
          /\ Val(r.event_id).hi # Val(q.event_id).hi
          /\ Val(r.event_id).lo = Val(q.event_id).lo

(* C12: is_purchase of an enriched record is 1 exactly when its           *)
(* event_type is the string "purchase", and 0 otherwise, a null or a      *)
(* differently cased event_type included; it is never anything else.      *)
C12_IsPurchaseExact ==
    \A r \in Observed :
        /\ r.is_purchase \in {Some(0), Some(1)}
        /\ r.is_purchase = Some(1) <=> r.event_type = Some("purchase")

C12_Witness ==
    /\ Loaded
    /\ \E r \in published : r.event_type = Some("purchase") /\ r.is_purchase = Some(1)
    /\ \E r \in published : r.event_type = Some("Purchase") /\ r.is_purchase = Some(0)

====
